---- MODULE Spec2Model ----
(***************************************************************************)
(* A model of src-tauri/src/main.rs: the SQLite store that init_database   *)
(* creates (five tables, four indexes, their NOT NULL / DEFAULT / FOREIGN  *)
(* KEY declarations), the statements a connection opened the way           *)
(* init_database opens it can run against that schema, the path helpers    *)
(* get_db_path / get_app_data_dir, and main's startup sequence.            *)
(*                                                                         *)
(* Values.  TEXT values are strings.  INTEGER / REAL values and the        *)
(* datetime('now') timestamps are integers (a timestamp is the number of   *)
(* whole seconds on the wall clock: datetime('now') has a resolution of    *)
(* one second and its text form orders as the time does).  SQL NULL is     *)
(* NullText in a text column and NullInt in a numeric or timestamp one.    *)
(***************************************************************************)
EXTENDS Integers, Sequences, FiniteSets, TLC

\* ------------------------------------------------------------------ bounds
\* The wall clock runs over 0..MaxClock seconds.
MaxClock == 1

\* Primary keys the host may use for each collection.
ProjectIds == {"p1"}
CharacterIds == {"c1"}
SceneIds == {"s1"}
JobIds == {"j1"}

\* ------------------------------------------------------------ SQL values
NullText == "<NULL>"
NullInt == -1

IntCols == {"scene_number", "duration", "sort_order", "cost", "created_at", "updated_at", "started_at", "completed_at"}

NullOf(c) == IF c \in IntCols THEN NullInt ELSE NullText

IsNull(c, v) == v = NullOf(c)

\* ------------------------------------------------- the schema (the DDL)
\* Each table's columns with the value an INSERT gives a column it omits:
\* the DEFAULT clause, datetime('now') evaluated at `now`, or NULL.
ProjectsTable(now) == [id |-> NullText, name |-> NullText, genre |-> "drama", synopsis |-> "", tone |-> "cinematic", created_at |-> now, updated_at |-> now]

CharactersTable(now) == [id |-> NullText, project_id |-> NullText, name |-> NullText, description |-> "", photo_data |-> "", created_at |-> now]

\* The scenes table with another default duration.
ScenesTableLongDuration(now) == [id |-> NullText, project_id |-> NullText, scene_number |-> NullInt, title |-> "", description |-> "", prompt |-> "", camera_angle |-> "medium shot", lighting |-> "natural", duration |-> 10, dialog |-> "", characters_json |-> "[]", status |-> "pending", video_url |-> "", sort_order |-> 0, created_at |-> now]

ScenesTable(now) == [id |-> NullText, project_id |-> NullText, scene_number |-> NullInt, title |-> "", description |-> "", prompt |-> "", camera_angle |-> "medium shot", lighting |-> "natural", duration |-> 5, dialog |-> "", characters_json |-> "[]", status |-> "pending", video_url |-> "", sort_order |-> 0, created_at |-> now]

VideoJobsTable(now) == [id |-> NullText, scene_id |-> NullText, provider |-> NullText, job_id |-> NullText, status |-> "queued", video_url |-> "", cost |-> 0, started_at |-> now, completed_at |-> NullInt]

SettingsTable(now) == [key |-> NullText, value |-> NullText]

TableNames == {"projects", "characters", "scenes", "video_jobs", "settings"}

IndexNames == {"idx_characters_project", "idx_scenes_project", "idx_scenes_order", "idx_jobs_scene"}

Defaults(t, now) ==
  CASE t = "projects" -> ProjectsTable(now)
    [] t = "characters" -> CharactersTable(now)
    [] t = "scenes" -> ScenesTable(now)
    [] t = "video_jobs" -> VideoJobsTable(now)
    [] t = "settings" -> SettingsTable(now)

Columns(t) == DOMAIN Defaults(t, 0)

\* The declarations with characters.name left nullable.
NotNullColsNameless(t) ==
  CASE t = "projects" -> {"name"}
    [] t = "characters" -> {"project_id"}
    [] t = "scenes" -> {"project_id", "scene_number"}
    [] t = "video_jobs" -> {"scene_id", "provider", "job_id"}
    [] t = "settings" -> {"value"}

\* The columns declared NOT NULL.
NotNullCols(t) ==
  CASE t = "projects" -> {"name"}
    [] t = "characters" -> {"project_id", "name"}
    [] t = "scenes" -> {"project_id", "scene_number"}
    [] t = "video_jobs" -> {"scene_id", "provider", "job_id"}
    [] t = "settings" -> {"value"}

\* The PRIMARY KEY column.
PrimaryKey(t) == IF t = "settings" THEN "key" ELSE "id"

\* FOREIGN KEY (col) REFERENCES parent(id) ON DELETE CASCADE.
ForeignKeys == {[child |-> "characters", col |-> "project_id", parent |-> "projects"], [child |-> "scenes", col |-> "project_id", parent |-> "projects"], [child |-> "video_jobs", col |-> "scene_id", parent |-> "scenes"]}

\* The nine statements of the batch, in order.
SchemaBatch == << [kind |-> "table", name |-> "projects"], [kind |-> "table", name |-> "characters"], [kind |-> "table", name |-> "scenes"], [kind |-> "table", name |-> "video_jobs"], [kind |-> "table", name |-> "settings"], [kind |-> "index", name |-> "idx_characters_project", on |-> "characters"], [kind |-> "index", name |-> "idx_scenes_project", on |-> "scenes"], [kind |-> "index", name |-> "idx_scenes_order", on |-> "scenes"], [kind |-> "index", name |-> "idx_jobs_scene", on |-> "video_jobs"] >>

\* Whether a connection opened by Connection::open and given no PRAGMA
\* enforces foreign keys: the SQLite library's compile-time default
\* (SQLITE_DEFAULT_FOREIGN_KEYS), which the build, not this code, decides.
ForeignKeyDefaults == BOOLEAN

EmptyRows == [t \in TableNames |-> {}]

\* --------------------------------------------------- statement execution
\* INSERT: the row a statement supplying `input` (a record over some of the
\* columns) would store.
ApplyDefaults(t, input, now) == [c \in Columns(t) |-> IF c \in DOMAIN input THEN input[c] ELSE Defaults(t, now)[c]]

NullViolations(t, row) == {c \in NotNullCols(t) : IsNull(c, row[c])}

KeyExists(rws, t, k) == \E r \in rws[t] : r[PrimaryKey(t)] = k

MissingParents(rws, t, row) == {k \in ForeignKeys : k.child = t /\ ~IsNull(k.col, row[k.col]) /\ ~KeyExists(rws, k.parent, row[k.col])}

\* INSERT INTO t (...) VALUES (...) in autocommit mode; fk says whether the
\* connection enforces foreign keys.
ExecInsert(d, fk, t, input, now) ==
  LET row == ApplyDefaults(t, input, now) IN
  IF t \notin d.tables THEN [db |-> d, res |-> "no such table"]
  ELSE IF NullViolations(t, row) # {} THEN [db |-> d, res |-> "NOT NULL constraint failed"]
  ELSE IF KeyExists(d.rows, t, row[PrimaryKey(t)]) THEN [db |-> d, res |-> "UNIQUE constraint failed"]
  ELSE IF fk /\ MissingParents(d.rows, t, row) # {} THEN [db |-> d, res |-> "FOREIGN KEY constraint failed"]
  ELSE [db |-> [d EXCEPT !.rows[t] = @ \cup {row}], res |-> "ok"]

\* INSERT OR REPLACE INTO t: a row with the same key is replaced.
ExecUpsert(d, fk, t, input, now) ==
  LET row == ApplyDefaults(t, input, now) IN
  IF t \notin d.tables THEN [db |-> d, res |-> "no such table"]
  ELSE IF NullViolations(t, row) # {} THEN [db |-> d, res |-> "NOT NULL constraint failed"]
  ELSE [db |-> [d EXCEPT !.rows[t] = {r \in @ : r[PrimaryKey(t)] # row[PrimaryKey(t)]} \cup {row}], res |-> "ok"]

\* DELETE FROM t WHERE <key> IN keys.  With foreign keys enforced the ON
\* DELETE CASCADE clauses remove the rows that reference a deleted row, and
\* so on down; without enforcement the clauses do nothing.
RECURSIVE DeleteCascade(_, _, _, _)
RECURSIVE CascadeInto(_, _, _)
CascadeInto(rws, kids, keys) ==
  IF kids = {} THEN rws
  ELSE LET k == CHOOSE x \in kids : TRUE
           childKeys == {r[PrimaryKey(k.child)] : r \in {x \in rws[k.child] : x[k.col] \in keys}}
       IN CascadeInto(DeleteCascade(rws, TRUE, k.child, childKeys), kids \ {k}, keys)

DeleteCascade(rws, fk, t, keys) ==
  LET without == [rws EXCEPT ![t] = {r \in @ : r[PrimaryKey(t)] \notin keys}]
  IN IF fk THEN CascadeInto(without, {k \in ForeignKeys : k.parent = t}, keys) ELSE without

\* One DELETE statement is atomic: a failure while it runs (fault) rolls
\* the statement back.
ExecDelete(d, fk, t, key, fault) ==
  IF t \notin d.tables THEN [db |-> d, res |-> "no such table"]
  ELSE IF fault THEN [db |-> d, res |-> "disk I/O error"]
  ELSE [db |-> [d EXCEPT !.rows = DeleteCascade(@, fk, t, {key})], res |-> "ok"]

\* UPDATE t SET <set> WHERE <key> = key.  The schema declares no trigger
\* and no CHECK: only the assigned columns change.
ExecUpdate(d, fk, t, key, set) ==
  LET new(r) == [c \in DOMAIN r |-> IF c \in DOMAIN set THEN set[c] ELSE r[c]]
      hit == {r \in d.rows[t] : r[PrimaryKey(t)] = key}
  IN IF t \notin d.tables THEN [db |-> d, res |-> "no such table"]
     ELSE IF \E r \in hit : NullViolations(t, new(r)) # {} THEN [db |-> d, res |-> "NOT NULL constraint failed"]
     ELSE [db |-> [d EXCEPT !.rows[t] = (@ \ hit) \cup {new(r) : r \in hit}], res |-> "ok"]

\* ------------------------------------------------------- init_database
\* CREATE TABLE name, without IF NOT EXISTS: an error when the table exists.
CreateTable(d, name) == IF name \in d.tables THEN [db |-> d, res |-> "table already exists"] ELSE [db |-> [d EXCEPT !.tables = @ \cup {name}], res |-> "ok"]

\* CREATE TABLE IF NOT EXISTS name: nothing happens to a table that exists.
CreateTableIfNotExists(d, name) == [db |-> [d EXCEPT !.tables = @ \cup {name}], res |-> "ok"]

\* CREATE INDEX IF NOT EXISTS name ON on(...).
CreateIndexIfNotExists(d, name, on) ==
  IF name \in d.indexes THEN [db |-> d, res |-> "ok"]
  ELSE IF on \notin d.tables THEN [db |-> d, res |-> "no such table"]
  ELSE [db |-> [d EXCEPT !.indexes = @ \cup {name}], res |-> "ok"]

ExecDDL(d, st) == IF st.kind = "table" THEN CreateTableIfNotExists(d, st.name) ELSE CreateIndexIfNotExists(d, st.name, st.on)

\* failAt = 0: Connection::open fails.  failAt = k in 1..9: statement k of
\* the batch fails (an I/O error).  failAt = NoFault: nothing fails.
NoFault == Len(SchemaBatch) + 1

\* The failures explored: the open, a CREATE TABLE (the second statement),
\* a CREATE INDEX (the sixth), none.
FaultPoints == {0, 2, 6, NoFault}

\* conn.execute_batch: the statements run one after another, each its own
\* transaction; the first error ends the batch and is returned.
RECURSIVE ExecuteBatch(_, _, _)
ExecuteBatch(d, i, failAt) ==
  IF i > Len(SchemaBatch) THEN [db |-> d, res |-> "ok"]
  ELSE IF i = failAt THEN [db |-> d, res |-> "disk I/O error"]
  ELSE LET r == ExecDDL(d, SchemaBatch[i])
       IN IF r.res # "ok" THEN r ELSE ExecuteBatch(r.db, i + 1, failAt)

\* init_database(db_path): Connection::open(db_path)? cannot open a file in
\* a directory that does not exist; then the batch.  "ok" is Ok(()), any
\* other res is the Err returned.
init_database(d, dirExists, failAt) ==
  IF ~dirExists \/ failAt = 0 THEN [db |-> d, res |-> "unable to open database file"]
  ELSE ExecuteBatch(d, 1, failAt)

\* ------------------------------------------------------------------ paths
\* Option<T>.
None == [some |-> FALSE]

Some(v) == [some |-> TRUE, val |-> v]

unwrap_or(o, d) == IF o.some THEN o.val ELSE d

\* A PathBuf is [abs, comps]: whether it starts at the root, and its
\* components (OsStr names).  BadName is a name holding a byte sequence
\* that is not UTF-8.  A String is the sequence of its pieces: names and
\* "/" separators.
BadName == "caf\\xE9"

ReplacedName == "caf<U+FFFD>"

\* PathBuf::from(".")
DotPath == [abs |-> FALSE, comps |-> <<".">>]

\* What dirs::data_dir() can return: nothing (no home directory known), an
\* absolute directory, one whose name is not UTF-8, or (HOME is taken as it
\* is set) a relative one.
PlatformDirs == {None, Some([abs |-> TRUE, comps |-> <<"home", "share">>]), Some([abs |-> TRUE, comps |-> <<"home", BadName>>]), Some([abs |-> FALSE, comps |-> <<"share">>])}

\* The directory the store's own statements are explored under.
UsualDirs == {Some([abs |-> TRUE, comps |-> <<"home", "share">>])}

\* Path::join with a relative name.
join(p, name) == [p EXCEPT !.comps = Append(@, name)]

\* Path::parent: None for the root and for the empty path.
parent(p) == IF Len(p.comps) = 0 THEN None ELSE Some([p EXCEPT !.comps = SubSeq(@, 1, Len(@) - 1)])

\* OsStr::to_string_lossy on one name: invalid bytes become U+FFFD.
LossyName(n) == IF n = BadName THEN ReplacedName ELSE n

RECURSIVE JoinNames(_)
JoinNames(names) ==
  IF Len(names) = 0 THEN <<>>
  ELSE IF Len(names) = 1 THEN <<LossyName(names[1])>>
  ELSE <<LossyName(names[1]), "/">> \o JoinNames(Tail(names))

\* Path::to_string_lossy().to_string()
to_string_lossy(p) == (IF p.abs THEN <<"/">> ELSE <<>>) \o JoinNames(p.comps)

\* get_db_path(): data_dir().unwrap_or(".").join("ai-directors-chair"),
\* create_dir_all(..).ok() (made says whether the directory could be
\* created; a failure is dropped), then .join("projects.db").
get_db_path(dir, exists, made) ==
  LET app_dir == join(unwrap_or(dir, DotPath), "ai-directors-chair")
  IN [path |-> join(app_dir, "projects.db"), dirExists |-> exists \/ made]

\* get_app_data_dir() without .parent(): the database file's own path.
get_app_data_dir_file(dir, exists, made) ==
  LET p == get_db_path(dir, exists, made)
  IN [ret |-> to_string_lossy(p.path), dirExists |-> p.dirExists]

\* get_app_data_dir(): get_db_path().parent().unwrap_or(".") as a String.
get_app_data_dir(dir, exists, made) ==
  LET p == get_db_path(dir, exists, made)
  IN [ret |-> to_string_lossy(unwrap_or(parent(p.path), DotPath)), dirExists |-> p.dirExists]

\* ------------------------------------------------------------------ main
\* What main prints once init_database has returned.
LogInit(res) == IF res # "ok" THEN [out |-> <<>>, err |-> <<"Failed to initialize database">>] ELSE [out |-> <<"Database initialized at">>, err |-> <<>>]

\* A main that gives up when init_database fails.
StartHostOrAbort(res, hostOk) == IF res # "ok" THEN "aborted" ELSE IF hostOk THEN "running" ELSE "panicked"

\* What main does after the logging: tauri::Builder ... .run(..).expect(..),
\* whatever init_database returned.  hostOk: the host application starts.
StartHost(res, hostOk) == IF hostOk THEN "running" ELSE "panicked"

\* ------------------------------------------------------------------ state
VARIABLES dataDir, foreign_keys, appDirExists, db, clock, host, dbPath, stdout, stderr, last

vars == <<dataDir, foreign_keys, appDirExists, db, clock, host, dbPath, stdout, stderr, last>>

env == <<dataDir, foreign_keys>>

process == <<host, dbPath, stdout, stderr>>

InitWith(dirs) ==
  /\ dataDir \in dirs
  /\ foreign_keys \in ForeignKeyDefaults
  /\ appDirExists = FALSE
  /\ db = [tables |-> {}, indexes |-> {}, rows |-> EmptyRows]
  /\ clock = 0
  /\ host = "stopped"
  /\ dbPath = None
  /\ stdout = <<>>
  /\ stderr = <<>>
  /\ last = [op |-> "none", res |-> "ok"]

Init == InitWith(UsualDirs)

InitHost == InitWith(PlatformDirs)

\* ------------------------------------------------------- what a host sends
\* The values a create supplies, as a record over the columns it names.
\* Every create supplies its primary key (ids are client-generated).
ProjectInputs == UNION {{[id |-> p], [id |-> p, name |-> "Film"]} : p \in ProjectIds}

CharacterInputs == UNION {{[id |-> c, name |-> "Ann"]} \cup UNION {{[id |-> c, project_id |-> p], [id |-> c, project_id |-> p, name |-> "Ann"]} : p \in ProjectIds} : c \in CharacterIds}

SceneInputs == UNION {{[id |-> s, scene_number |-> 1]} \cup UNION {{[id |-> s, project_id |-> p], [id |-> s, project_id |-> p, scene_number |-> 1]} : p \in ProjectIds} : s \in SceneIds}

JobInputs == UNION {{[id |-> j, provider |-> "runway", job_id |-> "ext-1"]} \cup UNION {{[id |-> j, scene_id |-> s, provider |-> "runway", job_id |-> "ext-1"], [id |-> j, scene_id |-> s, provider |-> "runway", job_id |-> "ext-1", status |-> "processing"]} : s \in SceneIds} : j \in JobIds}

SettingInputs == {[key |-> "theme"], [key |-> "theme", value |-> "dark"]}

ProjectUpdates == {[name |-> "Retitled"]}

TerminalStatuses == {"completed", "failed"}

JobUpdates(now) == {[status |-> "processing"], [status |-> "completed"], [status |-> "failed", completed_at |-> now]}

\* ---------------------------------------------------------------- actions
\* main(), up to the host application running: get_db_path, init_database,
\* the log line, the builder.  A process starts when none is running.
main(made, failAt, hostOk) ==
  /\ host # "running"
  /\ LET p == get_db_path(dataDir, appDirExists, made)
         r == init_database(db, p.dirExists, failAt)
     IN /\ appDirExists' = p.dirExists
        /\ dbPath' = Some(p.path)
        /\ db' = r.db
        /\ stdout' = LogInit(r.res).out
        /\ stderr' = LogInit(r.res).err
        /\ host' = StartHost(r.res, hostOk)
        /\ last' = [op |-> "main", res |-> r.res]
  /\ UNCHANGED <<env, clock>>

\* The host application ends (run returns) and with it the process: what
\* it printed and what its last call returned are gone.
Exit ==
  /\ host = "running"
  /\ host' = "stopped"
  /\ dbPath' = None
  /\ stdout' = <<>>
  /\ stderr' = <<>>
  /\ last' = [op |-> "none", res |-> "ok"]
  /\ UNCHANGED <<env, appDirExists, db, clock>>

\* The command get_app_data_dir, invoked by the running host.
GetAppDataDir(made) ==
  /\ host = "running"
  /\ LET r == get_app_data_dir(dataDir, appDirExists, made)
     IN /\ appDirExists' = r.dirExists
        /\ last' = [op |-> "get_app_data_dir", ret |-> r.ret, res |-> "ok"]
  /\ UNCHANGED <<env, db, clock, process>>

\* A second of wall-clock time passes.
Tick ==
  /\ clock < MaxClock
  /\ clock' = clock + 1
  /\ UNCHANGED <<env, appDirExists, db, process, last>>

\* The statements the running host sends on a connection opened the way
\* init_database opens one.
Insert(t, input) ==
  /\ host = "running"
  /\ LET r == ExecInsert(db, foreign_keys, t, input, clock)
     IN /\ db' = r.db
        /\ last' = [op |-> "statement", res |-> r.res]
  /\ UNCHANGED <<env, appDirExists, clock, process>>

CreateProject == \E i \in ProjectInputs : Insert("projects", i)

CreateCharacter == \E i \in CharacterInputs : Insert("characters", i)

CreateScene == \E i \in SceneInputs : Insert("scenes", i)

CreateJob == \E i \in JobInputs : Insert("video_jobs", i)

UpsertSetting ==
  /\ host = "running"
  /\ \E i \in SettingInputs :
       LET r == ExecUpsert(db, foreign_keys, "settings", i, clock)
       IN /\ db' = r.db
          /\ last' = [op |-> "statement", res |-> r.res]
  /\ UNCHANGED <<env, appDirExists, clock, process>>

Delete(t, key, fault) ==
  /\ host = "running"
  /\ LET r == ExecDelete(db, foreign_keys, t, key, fault)
     IN /\ db' = r.db
        /\ last' = [op |-> "statement", res |-> r.res]
  /\ UNCHANGED <<env, appDirExists, clock, process>>

DeleteProject == \E p \in ProjectIds, fault \in BOOLEAN : Delete("projects", p, fault)

DeleteScene == \E s \in SceneIds, fault \in BOOLEAN : Delete("scenes", s, fault)

Update(t, key, set) ==
  /\ host = "running"
  /\ LET r == ExecUpdate(db, foreign_keys, t, key, set)
     IN /\ db' = r.db
        /\ last' = [op |-> "statement", res |-> r.res]
  /\ UNCHANGED <<env, appDirExists, clock, process>>

UpdateProject == \E p \in ProjectIds, set \in ProjectUpdates : Update("projects", p, set)

UpdateJob == \E j \in JobIds, set \in JobUpdates(clock) : Update("video_jobs", j, set)

Startup == \E made \in BOOLEAN, failAt \in FaultPoints : main(made, failAt, TRUE)

\* A start in which the host application fails to run.
StartupHostFails == \E made \in BOOLEAN, failAt \in FaultPoints : main(made, failAt, FALSE)

Command == \E made \in BOOLEAN : GetAppDataDir(made)

Next ==
  \/ Startup
  \/ Exit
  \/ Command
  \/ Tick
  \/ CreateProject
  \/ CreateCharacter
  \/ CreateScene
  \/ CreateJob
  \/ UpsertSetting
  \/ DeleteProject
  \/ DeleteScene
  \/ UpdateProject
  \/ UpdateJob

Spec == Init /\ [][Next]_vars

\* The process alone, under every platform directory.
NextHost == Startup \/ StartupHostFails \/ Exit \/ Command

SpecHost == InitHost /\ [][NextHost]_vars

\* ================================================================ claims
InputsOf(t) ==
  CASE t = "projects" -> ProjectInputs
    [] t = "characters" -> CharacterInputs
    [] t = "scenes" -> SceneInputs
    [] t = "video_jobs" -> JobInputs
    [] t = "settings" -> SettingInputs

OwnedTables == {"projects", "characters", "scenes", "video_jobs"}

\* Every create the host may send: the table and the values supplied.
Creates == UNION {{[table |-> t, input |-> i] : i \in InputsOf(t)} : t \in OwnedTables}

\* The running process's init_database returned Ok: the store is open and
\* initialised the way init_database does it.
Initialised == host = "running" /\ stdout = <<"Database initialized at">>

CharactersOf(d, p) == {r \in d.rows["characters"] : r.project_id = p}

ScenesOf(d, p) == {r \in d.rows["scenes"] : r.project_id = p}

JobsOf(d, sceneIds) == {r \in d.rows["video_jobs"] : r.scene_id \in sceneIds}

SceneKeys(d, p) == {r.id : r \in ScenesOf(d, p)}

HasProject(d, p) == \E r \in d.rows["projects"] : r.id = p

HasScene(d, s) == \E r \in d.rows["scenes"] : r.id = s

\* C1. Cascade completeness: when a Project P that has Characters, Scenes
\* and Video Jobs attached is deleted from a store that init_database
\* initialised, no Character and no Scene of P is left, and no Video Job of
\* one of P's former Scenes.
C1_CascadeCompleteness ==
  [][\A p \in ProjectIds :
       (/\ Initialised
        /\ last'.res = "ok"
        /\ Delete("projects", p, FALSE)
        /\ CharactersOf(db, p) # {}
        /\ ScenesOf(db, p) # {}
        /\ JobsOf(db, SceneKeys(db, p)) # {})
       => /\ CharactersOf(db', p) = {}
          /\ ScenesOf(db', p) = {}
          /\ JobsOf(db', SceneKeys(db, p)) = {}]_vars

\* No row references a parent that is missing.
NoDanglingParent(d) ==
  /\ \A r \in d.rows["characters"] : HasProject(d, r.project_id)
  /\ \A r \in d.rows["scenes"] : HasProject(d, r.project_id)
  /\ \A r \in d.rows["video_jobs"] : HasScene(d, r.scene_id)

ParentMissing(d, t, i) ==
  \/ t \in {"characters", "scenes"} /\ "project_id" \in DOMAIN i /\ ~HasProject(d, i.project_id)
  \/ t = "video_jobs" /\ "scene_id" \in DOMAIN i /\ ~HasScene(d, i.scene_id)

\* C2. Referential rejection: creating a Character or Scene whose project_id
\* names no Project, or a Video Job whose scene_id names no Scene, fails and
\* changes nothing; and after every step no row references a missing parent
\* (stated for a store that init_database initialised).
C2_ReferentialRejection ==
  [][Initialised
     => /\ \A t \in {"characters", "scenes", "video_jobs"} : \A i \in InputsOf(t) :
             (ParentMissing(db, t, i) /\ Insert(t, i)) => (last'.res # "ok" /\ db' = db)
        /\ NoDanglingParent(db) => NoDanglingParent(db')]_vars

\* C3. Idempotent initialization: every run of init_database (one per start
\* of main) leaves every row of every table as it was and removes nothing
\* from the schema; a run that returns Ok leaves exactly the five tables and
\* the four indexes; and a run fails only when the environment fails it
\* (the directory is missing, or an injected I/O failure), never because the
\* schema is already there.
C3_IdempotentInit ==
  [][last'.op = "main" => \A made \in BOOLEAN, failAt \in FaultPoints, hostOk \in BOOLEAN :
       main(made, failAt, hostOk)
       => /\ db'.rows = db.rows
          /\ db.tables \subseteq db'.tables
          /\ db.indexes \subseteq db'.indexes
          /\ (last'.res = "ok" => (db'.tables = TableNames /\ Cardinality(db'.tables) = 5 /\ db'.indexes = IndexNames /\ Cardinality(db'.indexes) = 4))
          /\ ((failAt = NoFault /\ appDirExists') => last'.res = "ok")]_vars

\* A later run of init_database has returned Ok over a store that already
\* held rows.
C3_Witness ==
  /\ last = [op |-> "main", res |-> "ok"]
  /\ db.rows["projects"] # {}
  /\ db.rows["scenes"] # {}
  /\ db.rows["settings"] # {}

\* The state a DELETE of `key` from t must leave if it is not the state
\* before it: the row and everything it owns gone.
FullPostDelete(d, e, t, key) ==
  IF t = "projects"
  THEN /\ ~HasProject(e, key)
       /\ CharactersOf(e, key) = {}
       /\ ScenesOf(e, key) = {}
       /\ JobsOf(e, SceneKeys(d, key)) = {}
  ELSE /\ ~HasScene(e, key)
       /\ JobsOf(e, {key}) = {}

\* C4. Cascade atomicity: a Delete-Project or Delete-Scene step, failed or
\* not, leaves either the state before it or the state with the parent and
\* all its dependents gone, never the parent gone and dependents left
\* (stated for a store that init_database initialised and in which no row
\* was dangling before the step).
C4_CascadeAtomicity ==
  [][(Initialised /\ NoDanglingParent(db))
     => /\ \A p \in ProjectIds, fault \in BOOLEAN : Delete("projects", p, fault) => (db' = db \/ FullPostDelete(db, db', "projects", p))
        /\ \A s \in SceneIds, fault \in BOOLEAN : Delete("scenes", s, fault) => (db' = db \/ FullPostDelete(db, db', "scenes", s))]_vars

RequiredOmitted(t, i) ==
  \/ t = "projects" /\ "name" \notin DOMAIN i
  \/ t = "characters" /\ ("name" \notin DOMAIN i \/ "project_id" \notin DOMAIN i)
  \/ t = "scenes" /\ "project_id" \notin DOMAIN i
  \/ t = "video_jobs" /\ "scene_id" \notin DOMAIN i

\* The creates that omit a required field.
OmittingCreates == {c \in Creates : RequiredOmitted(c.table, c.input)}

\* C5. Required-field rejection: a create that omits name on a Project or
\* Character, project_id on a Character or Scene, or scene_id on a Video Job
\* fails, and the store is exactly as it was before it.
C5_RequiredFieldRejection ==
  [][last'.op = "statement" => \A c \in OmittingCreates :
       Insert(c.table, c.input) => (last'.res \in {"NOT NULL constraint failed", "no such table"} /\ db' = db)]_vars

\* A create has just been rejected for a missing required field, in a store
\* that holds rows.
C5_Witness ==
  /\ last = [op |-> "statement", res |-> "NOT NULL constraint failed"]
  /\ db.rows["projects"] # {}

\* C6. Terminal job invariant: after every step each Video Job whose status
\* is not terminal has completed_at null, and from one state to the next a
\* job's completed_at goes from null to non-null exactly when its status
\* becomes terminal, and never changes once set (stated for a store that
\* init_database initialised and that enforces its foreign keys).
C6_TerminalJobInvariant ==
  [][(Initialised /\ foreign_keys) =>
     /\ \A r \in db'.rows["video_jobs"] : r.status \notin TerminalStatuses => r.completed_at = NullInt
     /\ \A r \in db.rows["video_jobs"], n \in db'.rows["video_jobs"] :
          r.id = n.id
          => /\ r.completed_at # NullInt => n.completed_at = r.completed_at
             /\ (r.completed_at = NullInt /\ n.completed_at # NullInt) <=> (r.status \notin TerminalStatuses /\ n.status \in TerminalStatuses)]_vars

\* C7. updated_at monotonicity: a Project's created_at never changes, and a
\* step that changes one of its scalar fields leaves its updated_at strictly
\* greater than before (stated for a store that init_database initialised
\* and that enforces its foreign keys).
C7_UpdatedAtMonotonic ==
  [][(Initialised /\ foreign_keys) => \A r \in db.rows["projects"], n \in db'.rows["projects"] :
       r.id = n.id
       => /\ n.created_at = r.created_at
          /\ (n.name # r.name \/ n.genre # r.genre \/ n.synopsis # r.synopsis \/ n.tone # r.tone) => n.updated_at > r.updated_at]_vars

\* The defaults the specification lists, per table.
ExpectedDefaults(t) ==
  CASE t = "projects" -> [genre |-> "drama", synopsis |-> "", tone |-> "cinematic"]
    [] t = "characters" -> [description |-> "", photo_data |-> ""]
    [] t = "scenes" -> [title |-> "", description |-> "", prompt |-> "", camera_angle |-> "medium shot", lighting |-> "natural", duration |-> 5, dialog |-> "", characters_json |-> "[]", status |-> "pending", video_url |-> "", sort_order |-> 0]
    [] t = "video_jobs" -> [status |-> "queued", video_url |-> "", cost |-> 0]

CreationStamps(t) ==
  CASE t = "projects" -> {"created_at", "updated_at"}
    [] t = "characters" -> {"created_at"}
    [] t = "scenes" -> {"created_at"}
    [] t = "video_jobs" -> {"started_at"}

\* C8. Default application: a successful create stores, for every optional
\* field the caller omitted, the field's fixed default (genre "drama", tone
\* "cinematic", camera_angle "medium shot", lighting "natural", duration 5,
\* scene status "pending", sort_order 0, characters_json "[]", job status
\* "queued", cost 0, the empty string for the other text fields); the
\* creation timestamps are the store's clock and a job's completed_at is
\* null.  A Scene created from id, project_id and scene_number alone is
\* exactly those three values and the defaults.
C8_DefaultApplication ==
  [][(last'.op = "statement" /\ last'.res = "ok") => \A t \in OwnedTables : \A i \in InputsOf(t) :
       Insert(t, i)
       => \E r \in db'.rows[t] :
            /\ \A c \in DOMAIN i : r[c] = i[c]
            /\ \A c \in DOMAIN ExpectedDefaults(t) \ DOMAIN i : r[c] = ExpectedDefaults(t)[c]
            /\ \A c \in CreationStamps(t) \ DOMAIN i : r[c] = clock
            /\ (t = "video_jobs" /\ "completed_at" \notin DOMAIN i) => r.completed_at = NullInt
            /\ (t = "scenes" /\ DOMAIN i = {"id", "project_id", "scene_number"})
               => r = [id |-> i.id, project_id |-> i.project_id, scene_number |-> i.scene_number, title |-> "", description |-> "", prompt |-> "", camera_angle |-> "medium shot", lighting |-> "natural", duration |-> 5, dialog |-> "", characters_json |-> "[]", status |-> "pending", video_url |-> "", sort_order |-> 0, created_at |-> clock]]_vars

\* A Scene and a Video Job have just been created with their optional
\* fields omitted, the Scene after the clock moved.
C8_Witness ==
  /\ last = [op |-> "statement", res |-> "ok"]
  /\ \E r \in db.rows["scenes"] : r.duration = 5 /\ r.camera_angle = "medium shot" /\ r.created_at = 1
  /\ \E r \in db.rows["video_jobs"] : r.status = "queued" /\ r.completed_at = NullInt
  /\ \E r \in db.rows["projects"] : r.genre = "drama"

\* C9. Graceful degradation of startup: whatever init_database returns,
\* main goes on to build and run the host application (it runs whenever the
\* host itself can start); a failed initialization is logged on stderr and
\* the success line is printed only after a successful one.
C9_GracefulStartup ==
  [][last'.op = "main" => \A made \in BOOLEAN, failAt \in FaultPoints, hostOk \in BOOLEAN :
       main(made, failAt, hostOk)
       => /\ hostOk => host' = "running"
          /\ host' \in {"running", "panicked"}
          /\ last'.res # "ok" => (stderr' = <<"Failed to initialize database">> /\ stdout' = <<>>)
          /\ stdout' # <<>> => (last'.res = "ok" /\ db'.tables = TableNames /\ db'.indexes = IndexNames)
          /\ last'.res = "ok" => stdout' = <<"Database initialized at">>]_vars

\* The host application runs although init_database failed.
C9_Witness ==
  /\ host = "running"
  /\ last.op = "main"
  /\ last.res # "ok"
  /\ stderr = <<"Failed to initialize database">>

\* What a String says as a path (PathBuf::from).
IsAbsoluteString(str) == Len(str) > 0 /\ str[1] = "/"

PathFromString(str) == [abs |-> IsAbsoluteString(str), comps |-> SelectSeq(str, LAMBDA u : u # "/")]

DirOf(p) == [p EXCEPT !.comps = SubSeq(@, 1, Len(@) - 1)]

LossyPath(p) == [p EXCEPT !.comps = [k \in DOMAIN p.comps |-> IF p.comps[k] = BadName THEN ReplacedName ELSE p.comps[k]]]

ValidUnicode(p) == \A k \in DOMAIN p.comps : p.comps[k] # BadName

\* C10 as stated. get_app_data_dir always returns an absolute path, the
\* path of the directory that contains the database file init_database
\* uses, <platform-user-data-dir>/ai-directors-chair.
C10_AbsoluteDataDir ==
  last.op = "get_app_data_dir"
  => /\ IsAbsoluteString(last.ret)
     /\ PathFromString(last.ret) = DirOf(dbPath.val)

\* C10, amended. get_app_data_dir never fails and returns the lossy-UTF-8
\* text of the directory that contains the database file init_database
\* uses: <platform-user-data-dir>/ai-directors-chair when the platform
\* directory is known, ./ai-directors-chair when it is not.  The text is an
\* absolute path exactly when the platform directory is known and absolute,
\* and it names the directory exactly when the directory is valid Unicode.
C10_DataDirString ==
  /\ host = "running" => ENABLED Command
  /\ last.op = "get_app_data_dir"
     => /\ PathFromString(last.ret) = LossyPath(DirOf(dbPath.val))
        /\ ValidUnicode(DirOf(dbPath.val)) => PathFromString(last.ret) = DirOf(dbPath.val)
        /\ last.ret[Len(last.ret)] = "ai-directors-chair"
        /\ dataDir.some => SubSeq(PathFromString(last.ret).comps, 1, Len(dataDir.val.comps)) = LossyPath(dataDir.val).comps
        /\ ~dataDir.some => last.ret = <<".", "/", "ai-directors-chair">>
        /\ IsAbsoluteString(last.ret) <=> (dataDir.some /\ dataDir.val.abs)

\* The command has answered with the platform directory unknown.
C10_Witness ==
  /\ last.op = "get_app_data_dir"
  /\ ~dataDir.some
  /\ ~IsAbsoluteString(last.ret)

====
